---------------------------- MODULE Spec2Model ----------------------------
(***************************************************************************)
(* Grouped iteration and aggregation of py-polars/polars/dataframe/        *)
(* groupby.py: the GroupBy, RollingGroupBy and DynamicGroupBy wrappers,    *)
(* their cursor fields (_group_names, _group_indices, _current_index) and  *)
(* the lazy queries they hand to the evaluation engine.  The engine itself *)
(* (LazyFrame.groupby / groupby_rolling / groupby_dynamic / collect,       *)
(* DataFrame.__getitem__) is not part of groupby.py; it is modelled after  *)
(* the specification's Group Indexer (section 4.2) and external interfaces *)
(* (section 6).                                                            *)
(***************************************************************************)
EXTENDS Integers, Sequences, FiniteSets, TLC

\* ------------------------------------------------------------------ bounds
\* Largest number of rows of a source table.
MaxRows == 3

\* ------------------------------------------------------------ input domains
\* The rows a rolling-grouped table is made of: times 0, 1 and 3 in partition
\* "a" (gaps of 1, 2 and 3 time units) and one row of a second partition.
RollingRows == {[g |-> "a", t |-> 0], [g |-> "a", t |-> 1], [g |-> "a", t |-> 3], [g |-> "b", t |-> 1]}
\* The rows a key-grouped table is made of: three distinct (g, t) pairs, so
\* that grouping by g gives two groups and grouping by (g, t) three.
KeyRows == {[g |-> "a", t |-> 0], [g |-> "a", t |-> 1], [g |-> "b", t |-> 0]}

SeqsUpTo(S, n) == UNION {[1..k -> S] : k \in 0..n}

\* Tables are sequences of rows; a row is a record with one field per column.
KeyTables == SeqsUpTo(KeyRows, MaxRows)
RollingTables == SeqsUpTo(RollingRows, MaxRows)

\* A grouping item is a column name (str) or an expression (pl.col(name)).
Str(c) == [type |-> "str", col |-> c]
Expr(c) == [type |-> "Expr", col |-> c]
\* The `by` argument: a bare item, or a list of items.
Bare(item) == [type |-> item.type, items |-> <<item>>]
List(items) == [type |-> "list", items |-> items]

\* The (by, *more_by) call shapes of df.groupby(...) that are explored.
GroupByArgs ==
    { [by |-> Bare(Str("g")), more_by |-> <<>>],
      [by |-> Bare(Expr("g")), more_by |-> <<>>],
      [by |-> List(<<Str("g")>>), more_by |-> <<>>],
      [by |-> List(<<Str("g"), Str("t")>>), more_by |-> <<>>],
      [by |-> Bare(Str("g")), more_by |-> <<Str("t")>>] }

\* The value of an argument that was not given (Python's None).
None == [type |-> "None", items |-> <<>>]

VARIABLES
    kind,            \* the wrapper class: "GroupBy" | "RollingGroupBy" | "DynamicGroupBy"
    df,              \* self.df
    by,              \* self.by
    more_by,         \* self.more_by (GroupBy)
    maintain_order,  \* self.maintain_order (GroupBy)
    period,          \* self.period (RollingGroupBy, DynamicGroupBy)
    offset,          \* self.offset (RollingGroupBy, DynamicGroupBy); NoDuration when None
    closed,          \* self.closed (RollingGroupBy, DynamicGroupBy)
    check_sorted,    \* self.check_sorted (RollingGroupBy, DynamicGroupBy)
    every,           \* self.every (DynamicGroupBy)
    truncate,        \* self.truncate (DynamicGroupBy)
    include_boundaries, \* self.include_boundaries (DynamicGroupBy)
    start_by,        \* self.start_by (DynamicGroupBy)
    has_cursor,      \* whether __iter__ has assigned the three cursor attributes
    _group_names,    \* self._group_names: an iterator, its items and how many it gave
    _group_indices,  \* self._group_indices: one list of row indices per entry
    _current_index,  \* self._current_index
    ret,             \* what the last call returned or raised
    yielded,         \* history: the (key, sub-table) pairs given since the last __iter__
    ends,            \* history: StopIterations raised since the last __iter__ (0, 1, 2 = more)
    passes           \* history: __iter__ calls that returned (0, 1, 2 = more)

vars == <<kind, df, by, more_by, maintain_order, period, offset, closed,
          check_sorted, every, truncate, include_boundaries, start_by, has_cursor, _group_names, _group_indices,
          _current_index, ret, yielded, ends, passes>>

specVars == <<kind, df, by, more_by, maintain_order, period, offset, closed,
              check_sorted, every, truncate, include_boundaries, start_by>>
cursorVars == <<has_cursor, _group_names, _group_indices, _current_index>>

\* ------------------------------------------------------------ group keys
\* A yielded group name is a single value or a tuple of values.
Scalar(v) == [shape |-> "scalar", vals |-> <<v>>]
Tuple(vs) == [shape |-> "tuple", vals |-> vs]
NoKey == [shape |-> "none", vals |-> <<>>]

\* Results of calls: a return value or a raised exception.
Returned(op, key, data) == [op |-> op, exc |-> "none", key |-> key, data |-> data]
\* A returned table, with the arguments of the call that returned it.
ReturnedFrame(op, call, frame) ==
    [op |-> op, exc |-> "none", key |-> NoKey, data |-> frame.rows,
     columns |-> frame.columns, call |-> call]
Raised(op, exc) == [op |-> op, exc |-> exc, key |-> NoKey, data |-> <<>>]

Range(s) == {s[i] : i \in 1..Len(s)}

\* The history counters stop at 2 ("more than once").
Counted(n) == IF n < 2 THEN n + 1 ELSE n


\* ------------------------------------------------- the evaluation engine
\* DataFrame.with_row_count(name): the frame with a column of row numbers
\* 0..n-1 added (here the field idx, for "__POLARS_GB_GROUP_INDICES").
WithRowCount_FromOne(frame) == [i \in 1..Len(frame) |-> [g |-> frame[i].g, t |-> frame[i].t, idx |-> i]]
WithRowCount(frame) == [i \in 1..Len(frame) |-> [g |-> frame[i].g, t |-> frame[i].t, idx |-> i - 1]]

\* The plain frame as the engine reads it when no row count was added: the
\* aggregations below never read idx then.
AsFrame(frame) == [i \in 1..Len(frame) |-> [g |-> frame[i].g, t |-> frame[i].t, idx |-> -1]]

\* The key of a row: one component per grouping item, in the items' order.
KeyOf(row, items) == [i \in 1..Len(items) |-> row[items[i].col]]

\* Position of key in the entries built so far, 0 when it is absent.
RECURSIVE FindKey(_, _, _)
FindKey(entries, key, k) ==
    IF k > Len(entries) THEN 0
    ELSE IF entries[k].key = key THEN k
    ELSE FindKey(entries, key, k + 1)

\* Key Indexer: one scan over the rows in table order, building the ordered
\* mapping from distinct key to the positions (1-based) of the rows that share
\* it; a new key is appended, so entries stand in first-appearance order.
RECURSIVE KeyScan(_, _, _, _)
KeyScan(frame, items, k, entries) ==
    IF k > Len(frame) THEN entries
    ELSE LET key == KeyOf(frame[k], items)
             at == FindKey(entries, key, 1)
         IN IF at = 0
            THEN KeyScan(frame, items, k + 1, Append(entries, [key |-> key, rows |-> <<k>>]))
            ELSE KeyScan(frame, items, k + 1,
                         [entries EXCEPT ![at].rows = Append(@, k)])

\* Aggregation expressions the engine evaluates over the rows of one entry:
\* F.col(temp_col) collects the row numbers, "sum_t" is F.col("t").sum(),
\* "count" is F.count().
RECURSIVE SumT(_, _, _)
SumT(frame, rows, k) ==
    IF k > Len(rows) THEN 0 ELSE frame[rows[k]].t + SumT(frame, rows, k + 1)

Evaluate(expr, frame, rows) ==
    CASE expr = "col_temp" -> [i \in 1..Len(rows) |-> frame[rows[i]].idx]
      [] expr = "sum_t" -> SumT(frame, rows, 1)
      [] expr = "count" -> Len(rows)

Orderings(n) == {p \in [1..n -> 1..n] : \A i, j \in 1..n : i # j => p[i] # p[j]}
Reorder(s, p) == [i \in 1..Len(s) |-> s[p[i]]]

\* LazyFrame.groupby(items, maintain_order).agg(expr).collect(): the possible
\* result frames, one row [key, agg] per entry.  With maintain_order the
\* entries stand in first-appearance order; without it the order is the
\* engine's own and may differ from one evaluation to the next.
GroupbyAgg(frame, items, keep_order, expr) ==
    LET entries == KeyScan(frame, items, 1, <<>>)
        rows == [i \in 1..Len(entries) |->
                    [key |-> entries[i].key, agg |-> Evaluate(expr, frame, entries[i].rows)]]
    IN IF keep_order THEN {rows}
       ELSE {Reorder(rows, p) : p \in Orderings(Len(rows))}

\* ---- aggregation expressions
\* F.col(name), F.all() (every column that is not a grouping key) and
\* F.count(); a method call on an expression (.sum(), .first(), ...,
\* .quantile(q)) sets the function that reduces the column's values.
FCol(c) == [fn |-> "col", col |-> c, arg |-> 0]
FAll == [fn |-> "col", col |-> "*", arg |-> 0]
FCount == [fn |-> "count", col |-> "", arg |-> 0]
Method(e, name, arg) == [e EXCEPT !.fn = name, !.arg = arg]

\* The arguments of an agg call: the positional expressions (aggs followed by
\* more_aggs) and the keyword ones (named_aggs), each a pair of name and
\* expression.
AggCall(aggs, named_aggs) == [aggs |-> aggs, named_aggs |-> named_aggs]
Named(name, e) == [name |-> name, expr |-> e]

\* The columns of a frame, and those that no grouping item names.
FrameColumns == <<"g", "t">>
NonKeyColumns(items) ==
    SelectSeq(FrameColumns, LAMBDA c : \A i \in 1..Len(items) : items[i].col # c)

\* The output columns of one expression: F.all() stands for one expression
\* per non-key column; the default output name is the column's name, and
\* "count" for F.count().
OutputName(e) == IF e.fn = "count" THEN "count" ELSE e.col
ExpandExpr(e, items) ==
    IF e.col = "*"
    THEN LET cols == NonKeyColumns(items)
         IN [i \in 1..Len(cols) |-> [name |-> cols[i], expr |-> [e EXCEPT !.col = cols[i]]]]
    ELSE <<[name |-> OutputName(e), expr |-> e]>>

RECURSIVE ExpandAll(_, _, _)
ExpandAll(exprs, items, k) ==
    IF k > Len(exprs) THEN <<>>
    ELSE ExpandExpr(exprs[k], items) \o ExpandAll(exprs, items, k + 1)

\* The output columns of an agg call: the positional expressions under their
\* default names, then the keyword expressions under the caller's names.
OutputColumns(call, items) == ExpandAll(call.aggs, items, 1) \o call.named_aggs

\* The values of a sequence in ascending order.
Sorted(vals) ==
    LET p == CHOOSE p \in Orderings(Len(vals)) :
                \A i, j \in 1..Len(vals) : i < j => vals[p[i]] <= vals[p[j]]
    IN Reorder(vals, p)

RECURSIVE SumOf(_, _)
SumOf(vals, k) == IF k > Len(vals) THEN 0 ELSE vals[k] + SumOf(vals, k + 1)

\* A fraction, for means and medians.
Fraction(num, den) == [num |-> num, den |-> den]

\* An aggregation function applied to the values of one column in one group
\* (never empty), in row order.
Reduce(fn, arg, vals) ==
    LET n == Len(vals)
    IN CASE fn = "col" -> vals
         [] fn = "count" -> n
         [] fn = "first" -> vals[1]
         [] fn = "last" -> vals[n]
         [] fn = "max" -> Sorted(vals)[n]
         [] fn = "min" -> Sorted(vals)[1]
         [] fn = "sum" -> SumOf(vals, 1)
         [] fn = "mean" -> Fraction(SumOf(vals, 1), n)
         [] fn = "median" -> IF n % 2 = 1 THEN Fraction(Sorted(vals)[(n + 1) \div 2], 1)
                             ELSE Fraction(Sorted(vals)[n \div 2] + Sorted(vals)[n \div 2 + 1], 2)
         [] fn = "n_unique" -> Cardinality(Range(vals))
         [] fn = "quantile" -> Sorted(vals)[1 + arg * (n - 1)]

\* One output expression evaluated over the rows of one entry.
EvaluateExpr(e, frame, rows) ==
    Reduce(e.fn, e.arg, IF e.fn = "count" THEN rows ELSE [i \in 1..Len(rows) |-> frame[rows[i]][e.col]])

\* LazyFrame.groupby(items, maintain_order).agg(aggs, *more_aggs,
\* **named_aggs).collect(): the possible result frames.  The columns are the
\* grouping items' then the output columns; there is one row [key, agg] per
\* entry, agg holding one value per output column; the entries stand as in
\* GroupbyAgg.
GroupbyAggCall(frame, items, keep_order, call) ==
    LET entries == KeyScan(frame, items, 1, <<>>)
        outs == OutputColumns(call, items)
        columns == [i \in 1..Len(items) |-> items[i].col] \o [j \in 1..Len(outs) |-> outs[j].name]
        rows == [i \in 1..Len(entries) |->
                    [key |-> entries[i].key,
                     agg |-> [j \in 1..Len(outs) |-> EvaluateExpr(outs[j].expr, frame, entries[i].rows)]]]
    IN {[columns |-> columns, rows |-> Reorder(rows, p)] :
            p \in IF keep_order THEN {[i \in 1..Len(rows) |-> i]} ELSE Orderings(Len(rows))}

\* ---- per-group apply
\* The caller's function, a table-to-table function the engine cannot look
\* into: lambda group_df: group_df, or lambda group_df: group_df.head(1).
Udf(function, sub_table) ==
    CASE function = "identity" -> sub_table
      [] function = "head" -> SubSeq(sub_table, 1, 1)

\* The loop over the entries from entry k on: the sub-table of each entry's
\* rows is built and handed to the function, and what the function returns is
\* appended to the result.  calls logs the sub-tables the function was
\* invoked with.
RECURSIVE ApplyLoop(_, _, _, _, _)
ApplyLoop(frame, entries, k, function, acc) ==
    IF k > Len(entries) THEN acc
    ELSE LET sub_table == [i \in 1..Len(entries[k].rows) |-> frame[entries[k].rows[i]]]
         IN ApplyLoop(frame, entries, k + 1, function,
                      [calls |-> Append(acc.calls, sub_table),
                       rows |-> acc.rows \o Udf(function, sub_table)])

\* PyDataFrame.groupby_apply(by, function, maintain_order): the group index
\* is computed (entries as in GroupbyAgg), then the loop runs over it.
GroupbyApply(frame, items, function, keep_order) ==
    LET entries == KeyScan(frame, items, 1, <<>>)
    IN {ApplyLoop(frame, Reorder(entries, p), 1, function, [calls |-> <<>>, rows |-> <<>>]) :
            p \in IF keep_order THEN {[i \in 1..Len(entries) |-> i]} ELSE Orderings(Len(entries))}

\* DataFrame.__getitem__ with a list of row numbers: the rows at those
\* numbers, in the list's order.
SelectRows(frame, indices) == [i \in 1..Len(indices) |-> frame[indices[i] + 1]]

\* ------------------------------------------------ the rolling indexer
\* An optional duration argument: None, or a number of time units.
NoDuration == [given |-> FALSE, value |-> 0]
Duration(n) == [given |-> TRUE, value |-> n]

\* The offset the engine uses: -period when none was given.
ResolveOffset(per, off) == IF off.given THEN off.value ELSE 0 - per

\* The time index is non-decreasing within every partition.
IsSortedWithin(frame, items) ==
    \A i, j \in 1..Len(frame) :
        (i < j /\ KeyOf(frame[i], items) = KeyOf(frame[j], items)) => frame[i].t <= frame[j].t

\* Whether time t lies before the window's lower bound / within its upper bound.
BelowWindow(t, lower, closed_policy) ==
    IF closed_policy \in {"left", "both"} THEN t < lower ELSE t <= lower
WithinUpper(t, upper, closed_policy) ==
    IF closed_policy \in {"right", "both"} THEN t <= upper ELSE t < upper

\* A pointer into the partition moved forward while its row is before the
\* lower bound (lo) or still within the upper bound (hi).
RECURSIVE SkipBelow(_, _, _, _, _)
SkipBelow(frame, part, at, lower, closed_policy) ==
    IF at <= Len(part) /\ BelowWindow(frame[part[at]].t, lower, closed_policy)
    THEN SkipBelow(frame, part, at + 1, lower, closed_policy)
    ELSE at
RECURSIVE SkipWithin(_, _, _, _, _)
SkipWithin(frame, part, at, upper, closed_policy) ==
    IF at <= Len(part) /\ WithinUpper(frame[part[at]].t, upper, closed_policy)
    THEN SkipWithin(frame, part, at + 1, upper, closed_policy)
    ELSE at

\* Rolling Indexer, one partition: a single sweep with two pointers that only
\* move forward; row part[k] gets the window part[lo..hi-1].
RECURSIVE Sweep(_, _, _, _, _, _, _, _, _)
Sweep(frame, part, k, lo, hi, per, off, closed_policy, windows) ==
    IF k > Len(part) THEN windows
    ELSE LET lower == frame[part[k]].t + off
             upper == lower + per
             lo2 == SkipBelow(frame, part, lo, lower, closed_policy)
             hi2 == SkipWithin(frame, part, IF hi > lo2 THEN hi ELSE lo2, upper, closed_policy)
         IN Sweep(frame, part, k + 1, lo2, hi2, per, off, closed_policy,
                  Append(windows, [row |-> part[k], rows |-> SubSeq(part, lo2, hi2 - 1)]))

\* The windows of every row: each partition (found as the Key Indexer finds
\* groups) is swept once.
RECURSIVE SweepAll(_, _, _, _, _, _, _)
SweepAll(frame, parts, p, per, off, closed_policy, windows) ==
    IF p > Len(parts) THEN windows
    ELSE SweepAll(frame, parts, p + 1, per, off, closed_policy,
                  windows \o Sweep(frame, parts[p].rows, 1, 1, 1, per, off, closed_policy, <<>>))

\* LazyFrame.groupby_rolling(index_column="t", period, offset, closed, by,
\* check_sorted).agg(expr).collect(): UnsortedIndexError when the check is
\* asked for and fails; otherwise one row [key, agg] per source row, in row
\* order, keyed by the partition columns followed by the row's own time.
GroupbyRollingAgg(frame, per, off, closed_policy, by_arg, check, expr) ==
    IF check /\ ~IsSortedWithin(frame, by_arg.items)
    THEN [exc |-> "UnsortedIndexError", rows |-> <<>>]
    ELSE LET parts == KeyScan(frame, by_arg.items, 1, <<>>)
             windows == SweepAll(frame, parts, 1, per, ResolveOffset(per, off), closed_policy, <<>>)
             at == [i \in 1..Len(frame) |-> CHOOSE k \in 1..Len(windows) : windows[k].row = i]
         IN [exc |-> "none",
             rows |-> [i \in 1..Len(frame) |->
                [key |-> KeyOf(frame[i], by_arg.items) \o <<frame[i].t>>,
                 agg |-> Evaluate(expr, frame, windows[at[i]].rows)]]]

\* ------------------------------------------------------------- GroupBy
\* The lazy query of GroupBy.__iter__: the possible groups_df.
GroupsDf_IgnoresOrder == GroupbyAgg(WithRowCount(df), by.items \o more_by, FALSE, "col_temp")
GroupsDf == GroupbyAgg(WithRowCount(df), by.items \o more_by, maintain_order, "col_temp")

\* Whether the group name is a single value rather than a tuple.
NameIsSingleValue == by.type \in {"str", "Expr"} /\ more_by = <<>>

\* The group names as __iter__ hands them to the iterator.
GroupNames(groups_df, single) ==
    [i \in 1..Len(groups_df) |->
        IF single THEN Scalar(groups_df[i].key[1]) ELSE Tuple(groups_df[i].key)]

\* Python's iter(...) over a sequence of items, and next(...) on it.
PyIter(items) == [items |-> items, pos |-> 0]
PyExhausted(it) == it.pos >= Len(it.items)
PyNextItem(it) == it.items[it.pos + 1]
PyAdvanced(it) == [it EXCEPT !.pos = @ + 1]

\* The cursor assignments the __iter__ methods end with.
InstallCursor_KeepsPosition(groups_df, single) ==
    /\ _group_names' = PyIter(GroupNames(groups_df, single))
    /\ _group_indices' = [i \in 1..Len(groups_df) |-> groups_df[i].agg]
    /\ _current_index' = (IF has_cursor THEN _current_index ELSE 0)
    /\ has_cursor' = TRUE
InstallCursor(groups_df, single) ==
    /\ _group_names' = PyIter(GroupNames(groups_df, single))
    /\ _group_indices' = [i \in 1..Len(groups_df) |-> groups_df[i].agg]
    /\ _current_index' = 0
    /\ has_cursor' = TRUE

GroupByIter_KeepsRowCount ==
    /\ kind = "GroupBy"
    /\ \E groups_df \in GroupsDf : InstallCursor(groups_df, NameIsSingleValue)
    /\ ret' = Returned("__iter__", NoKey, <<>>)
    /\ yielded' = <<>>
    /\ ends' = 0
    /\ passes' = Counted(passes)
    /\ df' = WithRowCount(df)
    /\ UNCHANGED <<kind, by, more_by, maintain_order, period, offset, closed, check_sorted,
                   every, truncate, include_boundaries, start_by>>
GroupByIter ==
    /\ kind = "GroupBy"
    /\ \E groups_df \in GroupsDf : InstallCursor(groups_df, NameIsSingleValue)
    /\ ret' = Returned("__iter__", NoKey, <<>>)
    /\ yielded' = <<>>
    /\ ends' = 0
    /\ passes' = Counted(passes)
    /\ UNCHANGED specVars

\* __next__, the same code in the three classes.  Before __iter__ the cursor
\* attributes do not exist (AttributeError); next(self._group_names) raises
\* StopIteration of its own when the names iterator is exhausted.
Advance_CountsPastEnd ==
    IF ~has_cursor
    THEN /\ ret' = Raised("__next__", "AttributeError")
         /\ UNCHANGED <<cursorVars, yielded, ends>>
    ELSE IF _current_index >= Len(_group_indices)
    THEN /\ ret' = Raised("__next__", "StopIteration")
         /\ _current_index' = _current_index + 1
         /\ ends' = Counted(ends)
         /\ UNCHANGED <<has_cursor, _group_names, _group_indices, yielded>>
    ELSE IF PyExhausted(_group_names)
    THEN /\ ret' = Raised("__next__", "StopIteration")
         /\ ends' = Counted(ends)
         /\ UNCHANGED <<cursorVars, yielded>>
    ELSE LET group_name == PyNextItem(_group_names)
             group_data == SelectRows(df, _group_indices[_current_index + 1])
         IN /\ _group_names' = PyAdvanced(_group_names)
            /\ _current_index' = _current_index + 1
            /\ ret' = Returned("__next__", group_name, group_data)
            /\ yielded' = Append(yielded, <<group_name, group_data>>)
            /\ UNCHANGED <<has_cursor, _group_indices, ends>>
Advance ==
    IF ~has_cursor
    THEN /\ ret' = Raised("__next__", "AttributeError")
         /\ UNCHANGED <<cursorVars, yielded, ends>>
    ELSE IF _current_index >= Len(_group_indices)
    THEN /\ ret' = Raised("__next__", "StopIteration")
         /\ ends' = Counted(ends)
         /\ UNCHANGED <<cursorVars, yielded>>
    ELSE IF PyExhausted(_group_names)
    THEN /\ ret' = Raised("__next__", "StopIteration")
         /\ ends' = Counted(ends)
         /\ UNCHANGED <<cursorVars, yielded>>
    ELSE LET group_name == PyNextItem(_group_names)
             group_data == SelectRows(df, _group_indices[_current_index + 1])
         IN /\ _group_names' = PyAdvanced(_group_names)
            /\ _current_index' = _current_index + 1
            /\ ret' = Returned("__next__", group_name, group_data)
            /\ yielded' = Append(yielded, <<group_name, group_data>>)
            /\ UNCHANGED <<has_cursor, _group_indices, ends>>

GroupByNext ==
    /\ kind = "GroupBy"
    /\ Advance
    /\ UNCHANGED <<specVars, passes>>

\* The agg calls explored: agg(pl.col("t").sum()) and
\* agg(pl.count(), n=pl.col("t").sum()).
AggCalls ==
    { AggCall(<<Method(FCol("t"), "sum", 0)>>, <<>>),
      AggCall(<<FCount>>, <<Named("n", Method(FCol("t"), "sum", 0))>>) }

\* The engine rejects a result with two columns of one name; callers pass
\* expressions whose output names differ from each other and from the keys.
NamesDiffer(call, items) ==
    LET names == [i \in 1..Len(items) |-> items[i].col]
                    \o [j \in 1..Len(OutputColumns(call, items)) |-> OutputColumns(call, items)[j].name]
    IN \A i, j \in 1..Len(names) : i # j => names[i] # names[j]

\* The lazy query of GroupBy.agg: the possible result frames.
AggQuery_DropsMoreBy(call) == GroupbyAggCall(df, by.items, maintain_order, call)
AggQuery_IgnoresOrder(call) == GroupbyAggCall(df, by.items \o more_by, FALSE, call)
AggQuery(call) == GroupbyAggCall(df, by.items \o more_by, maintain_order, call)

\* agg, called with the arguments of call from the method named op (agg
\* itself, or a convenience aggregation that calls it).
AggFrom(op, call) ==
    /\ \E out \in AggQuery(call) : ret' = ReturnedFrame(op, call, out)
    /\ UNCHANGED <<specVars, cursorVars, yielded, ends, passes>>

GroupByAgg ==
    /\ kind = "GroupBy"
    /\ \E call \in AggCalls : NamesDiffer(call, by.items \o more_by) /\ AggFrom("agg", call)

\* The attributes only DynamicGroupBy has, in an object of another class.
NoDynamicFields ==
    /\ every = 0 /\ truncate = FALSE /\ include_boundaries = FALSE /\ start_by = "none"

\* The key list GroupBy.apply builds: by when it is a string or an iterable of
\* strings only, followed by more_by when that holds strings only; TypeError
\* otherwise.
ApplyBy_DropsMoreBy ==
    IF by.type = "str" \/ (by.type = "list" /\ \A i \in 1..Len(by.items) : by.items[i].type = "str")
    THEN IF \A i \in 1..Len(more_by) : more_by[i].type = "str"
         THEN [exc |-> "none", by |-> by.items]
         ELSE [exc |-> "TypeError", by |-> <<>>]
    ELSE [exc |-> "TypeError", by |-> <<>>]
ApplyBy_SkipsMoreByCheck ==
    IF by.type = "str" \/ (by.type = "list" /\ \A i \in 1..Len(by.items) : by.items[i].type = "str")
    THEN [exc |-> "none", by |-> by.items \o more_by]
    ELSE [exc |-> "TypeError", by |-> <<>>]
ApplyBy ==
    IF by.type = "str" \/ (by.type = "list" /\ \A i \in 1..Len(by.items) : by.items[i].type = "str")
    THEN IF \A i \in 1..Len(more_by) : more_by[i].type = "str"
         THEN [exc |-> "none", by |-> by.items \o more_by]
         ELSE [exc |-> "TypeError", by |-> <<>>]
    ELSE [exc |-> "TypeError", by |-> <<>>]

\* The functions a caller passes to apply.
Functions == {"identity", "head"}

\* What apply returned, with the key list it passed on and the sub-tables
\* the function was invoked with.
ReturnedApply(function, keys, out) ==
    [op |-> "apply", exc |-> "none", key |-> NoKey, data |-> out.rows,
     function |-> function, by |-> keys, calls |-> out.calls]

\* apply raised before it reached the engine: the function was not invoked.
RaisedApply(exc) ==
    [op |-> "apply", exc |-> exc, key |-> NoKey, data |-> <<>>, calls |-> <<>>]

GroupByApply ==
    /\ kind = "GroupBy"
    /\ \E function \in Functions :
          IF ApplyBy.exc # "none"
          THEN ret' = RaisedApply(ApplyBy.exc)
          ELSE \E out \in GroupbyApply(df, ApplyBy.by, function, maintain_order) :
                  ret' = ReturnedApply(function, ApplyBy.by, out)
    /\ UNCHANGED <<specVars, cursorVars, yielded, ends, passes>>

\* The expression each convenience aggregation builds for its agg call.
PreBuilt_CountsEveryColumn(method, arg) ==
    CASE method = "all" -> FAll
      [] method = "count" -> Method(FAll, "count", 0)
      [] method = "first" -> Method(FAll, "first", 0)
      [] method = "last" -> Method(FAll, "last", 0)
      [] method = "max" -> Method(FAll, "max", 0)
      [] method = "mean" -> Method(FAll, "mean", 0)
      [] method = "median" -> Method(FAll, "median", 0)
      [] method = "min" -> Method(FAll, "min", 0)
      [] method = "n_unique" -> Method(FAll, "n_unique", 0)
      [] method = "quantile" -> Method(FAll, "quantile", arg)
      [] method = "sum" -> Method(FAll, "sum", 0)
PreBuilt(method, arg) ==
    CASE method = "all" -> FAll
      [] method = "count" -> FCount
      [] method = "first" -> Method(FAll, "first", 0)
      [] method = "last" -> Method(FAll, "last", 0)
      [] method = "max" -> Method(FAll, "max", 0)
      [] method = "mean" -> Method(FAll, "mean", 0)
      [] method = "median" -> Method(FAll, "median", 0)
      [] method = "min" -> Method(FAll, "min", 0)
      [] method = "n_unique" -> Method(FAll, "n_unique", 0)
      [] method = "quantile" -> Method(FAll, "quantile", arg)
      [] method = "sum" -> Method(FAll, "sum", 0)

\* A convenience aggregation: self.agg(<the pre-built expression>).
Convenience(method, arg) ==
    /\ kind = "GroupBy"
    /\ AggFrom(method, AggCall(<<PreBuilt(method, arg)>>, <<>>))

\* The quantiles asked for: the lowest and the highest value.
Quantiles == {0, 1}

GroupByAll == Convenience("all", 0)
GroupByCount == Convenience("count", 0)
GroupByFirst == Convenience("first", 0)
GroupByLast == Convenience("last", 0)
GroupByMax == Convenience("max", 0)
GroupByMean == Convenience("mean", 0)
GroupByMedian == Convenience("median", 0)
GroupByMin == Convenience("min", 0)
GroupByNUnique == Convenience("n_unique", 0)
GroupByQuantile == \E quantile \in Quantiles : Convenience("quantile", quantile)
GroupBySum == Convenience("sum", 0)

NoCursor ==
    /\ has_cursor = FALSE
    /\ _group_names = PyIter(<<>>)
    /\ _group_indices = <<>>
    /\ _current_index = 0
    /\ ret = Returned("__init__", NoKey, <<>>)
    /\ yielded = <<>>
    /\ ends = 0
    /\ passes = 0

\* GroupBy.__init__: the object after construction.
Init ==
    /\ kind = "GroupBy"
    /\ df \in KeyTables
    /\ \E a \in GroupByArgs : by = a.by /\ more_by = a.more_by
    /\ maintain_order \in BOOLEAN
    /\ period = 0 /\ offset = NoDuration /\ closed = "none" /\ check_sorted = FALSE
    /\ NoDynamicFields
    /\ NoCursor

Next == GroupByIter \/ GroupByNext \/ GroupByAgg

Spec == Init /\ [][Next]_vars

\* The (by, *more_by) call shapes with an expression among several items.
ExprAmongArgs ==
    { [by |-> List(<<Str("g"), Expr("t")>>), more_by |-> <<>>],
      [by |-> Bare(Str("g")), more_by |-> <<Expr("t")>>] }

InitOneShot ==
    /\ kind = "GroupBy"
    /\ df \in KeyTables
    /\ \E a \in GroupByArgs \cup ExprAmongArgs : by = a.by /\ more_by = a.more_by
    /\ maintain_order \in BOOLEAN
    /\ period = 0 /\ offset = NoDuration /\ closed = "none" /\ check_sorted = FALSE
    /\ NoDynamicFields
    /\ NoCursor

\* The one-shot operations of a GroupBy: agg, the methods that call it, and
\* apply.
NextOneShot ==
    \/ GroupByAgg \/ GroupByApply
    \/ GroupByAll \/ GroupByCount \/ GroupByFirst \/ GroupByLast \/ GroupByMax
    \/ GroupByMean \/ GroupByMedian \/ GroupByMin \/ GroupByNUnique
    \/ GroupByQuantile \/ GroupBySum

SpecOneShot == InitOneShot /\ [][NextOneShot]_vars

\* The objects on which every operation is called in any order: tables of
\* rows with two keys, grouped by an expression, or by one column name and a
\* second one in more_by.
AnyCallRows == {[g |-> "a", t |-> 0], [g |-> "b", t |-> 1]}
AnyCallArgs ==
    { [by |-> Bare(Expr("g")), more_by |-> <<>>],
      [by |-> Bare(Str("g")), more_by |-> <<Str("t")>>] }

InitAnyCall ==
    /\ kind = "GroupBy"
    /\ df \in SeqsUpTo(AnyCallRows, MaxRows)
    /\ \E a \in AnyCallArgs : by = a.by /\ more_by = a.more_by
    /\ maintain_order \in BOOLEAN
    /\ period = 0 /\ offset = NoDuration /\ closed = "none" /\ check_sorted = FALSE
    /\ NoDynamicFields
    /\ NoCursor

\* Every operation of a GroupBy, in any order.
NextAnyCall ==
    \/ GroupByIter \/ GroupByNext
    \/ GroupByAgg \/ GroupByApply
    \/ GroupByAll \/ GroupByCount \/ GroupByFirst \/ GroupByLast \/ GroupByMax
    \/ GroupByMean \/ GroupByMedian \/ GroupByMin \/ GroupByNUnique
    \/ GroupByQuantile \/ GroupBySum

SpecAnyCall == InitAnyCall /\ [][NextAnyCall]_vars

\* ------------------------------------------------------ RollingGroupBy
\* The lazy query of RollingGroupBy.__iter__: groups_df, or the error raised.
RollingGroupsDf_Unchecked == GroupbyRollingAgg(WithRowCount(df), period, offset, closed, by, FALSE, "col_temp")
RollingGroupsDf_DefaultClosed == GroupbyRollingAgg(WithRowCount(df), period, offset, "right", by, check_sorted, "col_temp")
RollingGroupsDf_DropsBy == GroupbyRollingAgg(WithRowCount(df), period, offset, closed, None, check_sorted, "col_temp")
RollingGroupsDf == GroupbyRollingAgg(WithRowCount(df), period, offset, closed, by, check_sorted, "col_temp")

RollingIter_ClearsCursorFirst ==
    /\ kind = "RollingGroupBy"
    /\ \E groups_df \in {RollingGroupsDf} :
          IF groups_df.exc # "none"
          THEN /\ ret' = Raised("__iter__", groups_df.exc)
               /\ InstallCursor(<<>>, by = None)
               /\ UNCHANGED <<yielded, ends, passes>>
          ELSE /\ InstallCursor(groups_df.rows, by = None)
               /\ ret' = Returned("__iter__", NoKey, <<>>)
               /\ yielded' = <<>>
               /\ ends' = 0
               /\ passes' = Counted(passes)
    /\ UNCHANGED specVars
RollingIter ==
    /\ kind = "RollingGroupBy"
    /\ \E groups_df \in {RollingGroupsDf} :
          IF groups_df.exc # "none"
          THEN /\ ret' = Raised("__iter__", groups_df.exc)
               /\ UNCHANGED <<cursorVars, yielded, ends, passes>>
          ELSE /\ InstallCursor(groups_df.rows, by = None)
               /\ ret' = Returned("__iter__", NoKey, <<>>)
               /\ yielded' = <<>>
               /\ ends' = 0
               /\ passes' = Counted(passes)
    /\ UNCHANGED specVars

RollingNext ==
    /\ kind = "RollingGroupBy"
    /\ Advance
    /\ UNCHANGED <<specVars, passes>>

\* Aggregation expressions a caller passes to the rolling agg.
RollingAggExprs == {"sum_t"}

RollingAgg ==
    /\ kind = "RollingGroupBy"
    /\ \E aggs \in RollingAggExprs :
         \E out \in {GroupbyRollingAgg(AsFrame(df), period, offset, closed, by, check_sorted, aggs)} :
            ret' = IF out.exc # "none" THEN Raised("agg", out.exc)
                   ELSE Returned("agg", NoKey, out.rows)
    /\ UNCHANGED <<specVars, cursorVars, yielded, ends, passes>>

\* The rolling arguments that are explored.
Periods == {1, 2}
Offsets == {NoDuration, Duration(0)}
ClosedIntervals == {"left", "right", "both", "none"}

\* RollingGroupBy.__init__: the object after construction.  Without
\* check_sorted the caller must pass sorted data (membership is undefined
\* otherwise), so those tables are sorted.
InitRolling ==
    /\ kind = "RollingGroupBy"
    /\ df \in RollingTables
    /\ by \in {None, Bare(Str("g"))}
    /\ more_by = <<>> /\ maintain_order = FALSE
    /\ period \in Periods
    /\ offset \in Offsets
    /\ closed \in ClosedIntervals
    /\ check_sorted \in BOOLEAN
    /\ check_sorted \/ IsSortedWithin(df, by.items)
    /\ NoDynamicFields
    /\ NoCursor

NextRolling == RollingIter \/ RollingNext \/ RollingAgg

SpecRolling == InitRolling /\ [][NextRolling]_vars

\* The table belongs to the caller, who may change it between two calls on
\* the grouping object: here a row is appended in place (DataFrame.extend).
\* The object holds the same table (self.df), and no call on it is made.
TableExtended ==
    /\ Len(df) < MaxRows
    /\ \E row \in RollingRows : df' = Append(df, row)
    /\ UNCHANGED <<kind, by, more_by, maintain_order, period, offset, closed, check_sorted,
                   every, truncate, include_boundaries, start_by,
                   cursorVars, ret, yielded, ends, passes>>

\* A RollingGroupBy with check_sorted over a table that the caller goes on
\* extending: windows of one time unit ending at each row.
InitChangingTable ==
    /\ kind = "RollingGroupBy"
    /\ df \in RollingTables
    /\ by \in {None, Bare(Str("g"))}
    /\ more_by = <<>> /\ maintain_order = FALSE
    /\ period = 1 /\ offset = NoDuration /\ closed = "right"
    /\ check_sorted = TRUE
    /\ NoDynamicFields
    /\ NoCursor

NextChangingTable == RollingIter \/ RollingNext \/ TableExtended

SpecChangingTable == InitChangingTable /\ [][NextChangingTable]_vars

\* ------------------------------------------------ the dynamic indexer
\* The length of the calendar unit that start_by = "monday" anchors to (a
\* week), in time units.
Week == 2

Abs(n) == IF n < 0 THEN 0 - n ELSE n

\* Smallest and largest time of the rows at the positions in part.
MinTime(frame, part) == CHOOSE t \in {frame[r].t : r \in Range(part)} :
    \A r \in Range(part) : t <= frame[r].t
MaxTime(frame, part) == CHOOSE t \in {frame[r].t : r \in Range(part)} :
    \A r \in Range(part) : t >= frame[r].t

\* The anchor of the first window: the data's minimum time, or the nearest
\* earlier start of a week.
DynamicAnchor(tmin, start) == IF start = "datapoint" THEN tmin ELSE tmin - (tmin % Week)

\* The period and offset the engine uses: every and 0 when none was given.
ResolvePeriod(ev, per) == IF per.given THEN per.value ELSE ev
ResolveDynamicOffset(off) == IF off.given THEN off.value ELSE 0

\* The rows of the partition whose time lies inside the window, in the
\* partition's (ascending) order.
WindowMembers(frame, part, lower, upper, closed_policy) ==
    SelectSeq(part, LAMBDA r : /\ ~BelowWindow(frame[r].t, lower, closed_policy)
                               /\ WithinUpper(frame[r].t, upper, closed_policy))

\* Dynamic Indexer, one partition: the windows anchor + k * every + offset of
\* length period, for k from k up to kmax, in window start order; a window
\* without rows is not emitted.
RECURSIVE Stride(_, _, _, _, _, _, _, _, _, _)
Stride(frame, part, k, kmax, anchor, ev, per, off, closed_policy, windows) ==
    IF k > kmax THEN windows
    ELSE LET lower == anchor + k * ev + off
             upper == lower + per
             rows == WindowMembers(frame, part, lower, upper, closed_policy)
         IN Stride(frame, part, k + 1, kmax, anchor, ev, per, off, closed_policy,
                   IF rows = <<>> THEN windows
                   ELSE Append(windows, [part |-> part, lower |-> lower, upper |-> upper, rows |-> rows]))

\* The windows of one partition: every k whose window can meet the data range.
PartitionWindows(frame, part, ev, per, off, closed_policy, start) ==
    LET anchor == DynamicAnchor(MinTime(frame, part), start)
    IN Stride(frame, part, 0 - (per + Abs(off)), MaxTime(frame, part) - anchor + Abs(off),
              anchor, ev, per, off, closed_policy, <<>>)

\* The windowing runs per partition; the results are concatenated in
\* partition-then-window order.
RECURSIVE StrideAll(_, _, _, _, _, _, _, _, _)
StrideAll(frame, parts, p, ev, per, off, closed_policy, start, windows) ==
    IF p > Len(parts) THEN windows
    ELSE StrideAll(frame, parts, p + 1, ev, per, off, closed_policy, start,
                   windows \o PartitionWindows(frame, parts[p].rows, ev, per, off, closed_policy, start))

\* LazyFrame.groupby_dynamic(index_column="t", every, period, offset, truncate,
\* include_boundaries, closed, by, start_by, check_sorted).agg(expr).collect():
\* UnsortedIndexError when the check is asked for and fails; otherwise one row
\* [key, agg] per window, keyed by the partition columns, then (with
\* include_boundaries) the window's lower and upper boundary, then the window
\* key, which is the window's start.
GroupbyDynamicAgg(frame, ev, per, off, trunc, boundaries, closed_policy, by_arg, start, check, expr) ==
    IF check /\ ~IsSortedWithin(frame, by_arg.items)
    THEN [exc |-> "UnsortedIndexError", rows |-> <<>>]
    ELSE LET parts == KeyScan(frame, by_arg.items, 1, <<>>)
             windows == StrideAll(frame, parts, 1, ev, ResolvePeriod(ev, per),
                                  ResolveDynamicOffset(off), closed_policy, start, <<>>)
         IN [exc |-> "none",
             rows |-> [i \in 1..Len(windows) |->
                [key |-> KeyOf(frame[windows[i].rows[1]], by_arg.items)
                            \o (IF boundaries THEN <<windows[i].lower, windows[i].upper>> ELSE <<>>)
                            \o <<windows[i].lower>>,
                 agg |-> Evaluate(expr, frame, windows[i].rows)]]]

\* ------------------------------------------------------ DynamicGroupBy
\* The lazy query of DynamicGroupBy.__iter__: groups_df, or the error raised.
DynamicGroupsDf_PeriodFromOffset ==
    GroupbyDynamicAgg(WithRowCount(df), every, offset, period, truncate, include_boundaries,
                      closed, by, start_by, check_sorted, "col_temp")
DynamicGroupsDf ==
    GroupbyDynamicAgg(WithRowCount(df), every, period, offset, truncate, include_boundaries,
                      closed, by, start_by, check_sorted, "col_temp")

DynamicIter ==
    /\ kind = "DynamicGroupBy"
    /\ \E groups_df \in {DynamicGroupsDf} :
          IF groups_df.exc # "none"
          THEN /\ ret' = Raised("__iter__", groups_df.exc)
               /\ UNCHANGED <<cursorVars, yielded, ends, passes>>
          ELSE /\ InstallCursor(groups_df.rows, by = None)
               /\ ret' = Returned("__iter__", NoKey, <<>>)
               /\ yielded' = <<>>
               /\ ends' = 0
               /\ passes' = Counted(passes)
    /\ UNCHANGED specVars

DynamicNext ==
    /\ kind = "DynamicGroupBy"
    /\ Advance
    /\ UNCHANGED <<specVars, passes>>

DynamicAgg ==
    /\ kind = "DynamicGroupBy"
    /\ \E aggs \in RollingAggExprs :
         \E out \in {GroupbyDynamicAgg(AsFrame(df), every, period, offset, truncate,
                                       include_boundaries, closed, by, start_by, check_sorted, aggs)} :
            ret' = IF out.exc # "none" THEN Raised("agg", out.exc)
                   ELSE Returned("agg", NoKey, out.rows)
    /\ UNCHANGED <<specVars, cursorVars, yielded, ends, passes>>

\* The rows a dynamically grouped table is made of, and the arguments explored.
DynamicRows == {[g |-> "a", t |-> 0], [g |-> "b", t |-> 1], [g |-> "a", t |-> 2]}
DynamicTables == SeqsUpTo(DynamicRows, MaxRows)
\* (every, period): windows that tile by default, that overlap, and that tile
\* with the period given.
DynamicStrides ==
    { [every |-> 1, period |-> NoDuration],
      [every |-> 1, period |-> Duration(2)],
      [every |-> 2, period |-> Duration(2)] }
DynamicOffsets == {NoDuration, Duration(1)}
StartBys == {"datapoint", "monday"}

\* DynamicGroupBy.__init__: the object after construction.  Without
\* check_sorted is left at its default (True).
InitDynamic ==
    /\ kind = "DynamicGroupBy"
    /\ df \in DynamicTables
    /\ by \in {None, Bare(Str("g"))}
    /\ more_by = <<>> /\ maintain_order = FALSE
    /\ \E stride \in DynamicStrides : every = stride.every /\ period = stride.period
    /\ offset \in DynamicOffsets
    /\ truncate = TRUE
    /\ include_boundaries \in BOOLEAN
    /\ closed \in ClosedIntervals
    /\ start_by \in StartBys
    /\ check_sorted = TRUE
    /\ NoCursor

NextDynamic == DynamicIter \/ DynamicNext \/ DynamicAgg

SpecDynamic == InitDynamic /\ [][NextDynamic]_vars

\* ================================================================ claims
\* The grouping items of a GroupBy: by followed by more_by.
AllItems == by.items \o more_by

\* The (key, sub-table) pairs that advancing from a freshly installed cursor
\* to StopIteration gives, and the part of them still to come.
FullPass ==
    [k \in 1..Len(_group_indices) |->
        <<_group_names.items[k], SelectRows(df, _group_indices[k])>>]
RemainingPass == SubSeq(FullPass, _current_index + 1, Len(FullPass))

\* Every place (entry k, position i) of the installed row-index lists.
IndexSlots ==
    UNION {{<<k, i>> : i \in 1..Len(_group_indices[k])} : k \in 1..Len(_group_indices)}
SlotValue(slot) == _group_indices[slot[1]][slot[2]]

StrictlyAscending(s) == \A i, j \in 1..Len(s) : i < j => s[i] < s[j]

\* C1: after GroupBy.__iter__, for every table and every grouping (any list of
\* grouping columns, maintain_order or not), the row-index lists of the
\* entries hold every row index 0..n-1 exactly once: none is missing, none is
\* in two entries or twice in one, and nothing else is in them.
C1_Partition ==
    (kind = "GroupBy" /\ has_cursor) =>
        /\ \A r \in 0..(Len(df) - 1) : Cardinality({slot \in IndexSlots : SlotValue(slot) = r}) = 1
        /\ \A slot \in IndexSlots : SlotValue(slot) \in 0..(Len(df) - 1)

\* A three-row table grouped into two entries, one of them with two rows,
\* without maintain_order.
C1_Witness ==
    /\ kind = "GroupBy" /\ has_cursor /\ ~maintain_order
    /\ Len(df) = 3 /\ Len(_group_indices) = 2
    /\ \E k \in 1..2 : Len(_group_indices[k]) = 2

\* C2: after iteration has begun on a group index with N entries, the k-th
\* __next__ (1 <= k <= N) returns the k-th entry's key with the table of the
\* source rows at the k-th entry's row indices, in the stored order; the key
\* and the rows belong to the same entry: every returned row has the returned
\* key and every source row with that key is returned; and so did each of
\* the k - 1 calls before it.
C2_AdvancePairs ==
    (kind = "GroupBy" /\ ret.op = "__next__" /\ ret.exc = "none") =>
        LET k == Len(yielded)
        IN /\ k \in 1..Len(_group_indices)
           /\ k = _current_index
           /\ ret.key = _group_names.items[k]
           /\ Len(ret.data) = Len(_group_indices[k])
           /\ \A i \in 1..Len(ret.data) : ret.data[i] = df[_group_indices[k][i] + 1]
           /\ \A i \in 1..Len(ret.data) : KeyOf(ret.data[i], AllItems) = ret.key.vals
           /\ Len(ret.data) = Cardinality({i \in 1..Len(df) : KeyOf(df[i], AllItems) = ret.key.vals})
           /\ yielded[k] = <<ret.key, ret.data>>
           /\ \A j \in 1..k : yielded[j] = FullPass[j]

\* The second advance of a pass that followed a restart.
C2_Witness ==
    /\ kind = "GroupBy" /\ ret.op = "__next__" /\ ret.exc = "none"
    /\ passes = 2 /\ Len(yielded) = 2 /\ Len(ret.data) = 2

C4_EndIsTerminal ==
    /\ [](has_cursor => _current_index \in 0..Len(_group_indices))
    /\ [][(ends > 0 /\ ret'.op = "__next__") =>
            /\ ret' = Raised("__next__", "StopIteration")
            /\ UNCHANGED <<cursorVars, yielded>>]_vars

\* StopIteration was raised twice in a row at the end of at least two entries.
C4_Witness ==
    /\ kind = "GroupBy" /\ ends = 2 /\ ret = Raised("__next__", "StopIteration")
    /\ Len(_group_indices) >= 2 /\ _current_index = Len(_group_indices)

\* C5: __iter__ returns the object itself, so the cursor of an earlier call is
\* the object's cursor fields.  The claim: a second __iter__ made while the
\* earlier cursor is part-way through leaves that cursor's position and the
\* entries it has still to give as they were.
C5_IndependentCursors ==
    [][(has_cursor /\ 0 < _current_index /\ _current_index < Len(_group_indices)
            /\ ret'.op = "__iter__") =>
          /\ _current_index' = _current_index
          /\ RemainingPass' = RemainingPass]_vars

\* C6: grouping by exactly one column, however it is passed (bare string or
\* expression, or one-element list), yields single values as keys; grouping
\* by two or more columns yields tuples with one component per grouping
\* column, in the order given.
C6_KeyShape ==
    (kind = "GroupBy" /\ ret.op = "__next__" /\ ret.exc = "none") =>
        IF Len(AllItems) = 1
        THEN ret.key.shape = "scalar"
        ELSE /\ ret.key.shape = "tuple"
             /\ Len(ret.key.vals) = Len(AllItems)
             /\ \A i \in 1..Len(AllItems) : \A r \in 1..Len(ret.data) :
                    ret.key.vals[i] = ret.data[r][AllItems[i].col]

\* The first row (1-based) of the table with the given key.
FirstAppearance(key) == CHOOSE i \in 1..Len(df) :
    /\ KeyOf(df[i], AllItems) = key
    /\ \A j \in 1..(i - 1) : KeyOf(df[j], AllItems) # key

\* The specification's example: g = [a, a, b], v = [1, 2, 3] (here column t),
\* grouped by g with maintain_order and summed.
SumExample ==
    GroupbyAgg(AsFrame(<<[g |-> "a", t |-> 1], [g |-> "a", t |-> 2], [g |-> "b", t |-> 3]>>),
               <<Str("g")>>, TRUE, "sum_t")

\* C7: with maintain_order=True, the entries of the group index (so the keys
\* iteration yields) and the rows of an aggregation result stand in the order
\* in which each key first appears in the table; g = [a, a, b] with
\* v = [1, 2, 3] summed gives (a, 3) then (b, 3).
C7_FirstAppearanceOrder ==
    /\ (kind = "GroupBy" /\ maintain_order /\ has_cursor) =>
          /\ \A k \in 1..Len(_group_indices) :
                /\ StrictlyAscending(_group_indices[k])
                /\ _group_indices[k][1] + 1 = FirstAppearance(_group_names.items[k].vals)
          /\ \A k, l \in 1..Len(_group_indices) :
                k < l => _group_indices[k][1] < _group_indices[l][1]
    /\ (kind = "GroupBy" /\ maintain_order /\ ret.op = "agg") =>
          \A k, l \in 1..Len(ret.data) :
                k < l => FirstAppearance(ret.data[k].key) < FirstAppearance(ret.data[l].key)
    /\ SumExample = {<<[key |-> <<"a">>, agg |-> 3], [key |-> <<"b">>, agg |-> 3]>>}

\* g = [b, a, b] with maintain_order: the entries are b (rows 0 and 2), then a.
C7_Witness ==
    /\ kind = "GroupBy" /\ maintain_order /\ has_cursor
    /\ Len(df) = 3 /\ df[1].g = "b" /\ df[2].g = "a" /\ df[3].g = "b"
    /\ AllItems = <<Str("g")>>
    /\ _group_indices = <<(<<0, 2>>), (<<1>>)>>

\* Rows i and j (1-based) are in the same partition of a rolling grouping.
SamePartition(i, j) == KeyOf(df[i], by.items) = KeyOf(df[j], by.items)

\* The time index decreases somewhere (within a partition, when partition
\* columns are given).
IndexDecreases ==
    \E i, j \in 1..Len(df) : i < j /\ SamePartition(i, j) /\ df[i].t > df[j].t

\* C8: with check_sorted set and a time index that is not non-decreasing
\* (within each partition when partition columns are given), __iter__ and agg
\* raise UnsortedIndexError and return nothing, and no entry is ever installed
\* or yielded.
C8_UnsortedRaises ==
    (kind = "RollingGroupBy" /\ check_sorted /\ IndexDecreases) =>
        /\ ret.op \in {"__iter__", "agg"} => ret = Raised(ret.op, "UnsortedIndexError")
        /\ ret.op = "__next__" => ret = Raised("__next__", "AttributeError")
        /\ ~has_cursor /\ passes = 0
        /\ _group_indices = <<>> /\ _group_names.items = <<>> /\ yielded = <<>>

\* __iter__ raised with partition columns given, on a table with both
\* partitions whose time index decreases inside partition "a" (a decrease
\* across partitions alone is no error).
C8_Witness ==
    /\ kind = "RollingGroupBy" /\ check_sorted /\ by # None
    /\ ret = Raised("__iter__", "UnsortedIndexError")
    /\ \E i, j \in 1..Len(df) : i < j /\ df[i].g = "a" /\ df[j].g = "a" /\ df[i].t > df[j].t
    /\ \E i \in 1..Len(df) : df[i].g = "b"

\* Whether time t lies in the window of a row with time anchor: from
\* anchor + offset to anchor + offset + period, the lower bound included for
\* closed in {left, both}, the upper bound for closed in {right, both}.
InWindow(t, anchor) ==
    LET lower == anchor + (IF offset.given THEN offset.value ELSE 0 - period)
        upper == lower + period
    IN /\ t > lower \/ (t = lower /\ closed \in {"left", "both"})
       /\ t < upper \/ (t = upper /\ closed \in {"right", "both"})

\* The specification's example: times [0, 1, 2, 5], period 2, offset -2,
\* closed = right.
RollingExample ==
    LET times == <<0, 1, 2, 5>>
        frame == [i \in 1..4 |-> [g |-> "a", t |-> times[i]]]
    IN GroupbyRollingAgg(WithRowCount(frame), 2, Duration(-2), "right", None, TRUE, "col_temp")

WithClosedBoth == GroupbyRollingAgg(WithRowCount(df), period, offset, "both", by, check_sorted, "col_temp")

\* C10: for the same table, period, offset and partition columns, every window
\* computed with closed = "none" is contained, as a set of row indices, in the
\* corresponding window computed with closed = "both", and the two group
\* indexes have the same number of entries with the same keys.
C10_BothContainsNone ==
    (kind = "RollingGroupBy" /\ has_cursor /\ closed = "none") =>
        /\ WithClosedBoth.exc = "none"
        /\ Len(WithClosedBoth.rows) = Len(_group_indices)
        /\ \A k \in 1..Len(_group_indices) :
              /\ _group_names.items[k].vals = WithClosedBoth.rows[k].key
              /\ Range(_group_indices[k]) \subseteq Range(WithClosedBoth.rows[k].agg)

\* A closed = "none" window that is strictly smaller than the closed = "both"
\* window of the same row, and not empty.
C10_Witness ==
    /\ kind = "RollingGroupBy" /\ has_cursor /\ closed = "none"
    /\ \E k \in 1..Len(_group_indices) :
          /\ _group_indices[k] # <<>>
          /\ Range(_group_indices[k]) # Range(WithClosedBoth.rows[k].agg)

\* How many times row index r stands in the installed row-index lists.
Occurrences(r) == Cardinality({slot \in IndexSlots : SlotValue(slot) = r})

\* The windows of a dynamic grouping do not overlap: period equals every.
NoOverlap == ResolvePeriod(every, period) = every

\* The specification's example, a day being two time units: times
\* [0, 1, 2, 3], every = period = one day, start_by the data minimum, closed
\* at its default (left).
DynamicExample ==
    LET frame == [i \in 1..4 |-> [g |-> "a", t |-> i - 1]]
    IN GroupbyDynamicAgg(WithRowCount(frame), 2, Duration(2), NoDuration, TRUE, FALSE,
                         "left", None, "datapoint", TRUE, "col_temp")

\* C11 as stated: for a dynamic grouping whose windows do not overlap, every
\* row index of the table is in exactly one entry of the group index, for
\* every closed policy, offset and start_by.
C11_PartitionAnyClosed ==
    (kind = "DynamicGroupBy" /\ has_cursor /\ NoOverlap) =>
        \A r \in 0..(Len(df) - 1) : Occurrences(r) = 1

\* C11 as amended: for a dynamic grouping whose windows do not overlap, for
\* every offset and start_by, every row index is in exactly one entry when
\* closed is left or right; with closed = both a row is in one or two entries
\* (two when its time is a window boundary), with closed = none in one or
\* none.  Nothing but row indices of the table is in the entries.  With
\* every = period = one day, start_by the data minimum and closed = left, two
\* days of timestamps give exactly two entries, each with the rows of its day.
C11_NonOverlapPartition ==
    /\ (kind = "DynamicGroupBy" /\ has_cursor /\ NoOverlap) =>
          /\ \A slot \in IndexSlots : SlotValue(slot) \in 0..(Len(df) - 1)
          /\ \A k \in 1..Len(_group_indices) : StrictlyAscending(_group_indices[k])
          /\ \A r \in 0..(Len(df) - 1) :
                /\ closed \in {"left", "right"} => Occurrences(r) = 1
                /\ closed = "both" => Occurrences(r) \in {1, 2}
                /\ closed = "none" => Occurrences(r) \in {0, 1}
    /\ DynamicExample = [exc |-> "none",
                         rows |-> <<[key |-> <<0>>, agg |-> <<0, 1>>],
                                    [key |-> <<2>>, agg |-> <<2, 3>>]>>]

\* Three rows of one partition at times 0, 1, 2 in windows of length 2 that
\* are shifted by an offset and closed on the right: two entries.
C11_Witness ==
    /\ kind = "DynamicGroupBy" /\ has_cursor /\ NoOverlap
    /\ closed = "right" /\ every = 2 /\ offset = Duration(1) /\ by = None
    /\ Len(df) = 3 /\ df[1].t = 0 /\ df[2].t = 1 /\ df[3].t = 2
    /\ Len(_group_indices) = 2


\* The group index of the same object computed with include_boundaries: the
\* key of entry k is the partition columns, the window's lower and upper
\* boundary, and the window key.
WithBoundaries ==
    GroupbyDynamicAgg(WithRowCount(df), every, period, offset, truncate, TRUE,
                      closed, by, start_by, check_sorted, "col_temp")

\* C12: the key a dynamic iteration yields is the window's start boundary
\* (after the partition columns, if any); with include_boundaries the yielded
\* key carries the window's start and end as extra fields together with the
\* window key, also when no partition columns are given (by is None).
C12_DynamicKeys ==
    (kind = "DynamicGroupBy" /\ ret.op = "__next__" /\ ret.exc = "none") =>
        LET k == Len(yielded)
            full == WithBoundaries.rows[k].key
            n == Len(by.items)
            lower == full[n + 1]
            upper == full[n + 2]
        IN /\ upper = lower + ResolvePeriod(every, period)
           /\ \A i \in 1..Len(ret.data) :
                 /\ ~BelowWindow(ret.data[i].t, lower, closed)
                 /\ WithinUpper(ret.data[i].t, upper, closed)
           /\ ret.key.vals = SubSeq(full, 1, n) \o
                 (IF include_boundaries THEN <<lower, upper>> ELSE <<>>) \o <<lower>>

\* The rows (1-based) of the table with the given key, and the sum of their t.
RowsWithKey(key) == {i \in 1..Len(df) : KeyOf(df[i], AllItems) = key}
RECURSIVE SumTOver(_)
SumTOver(S) ==
    IF S = {} THEN 0
    ELSE LET i == CHOOSE i \in S : TRUE IN df[i].t + SumTOver(S \ {i})

\* What an explored aggregation expression (a count, or a sum of t) is worth
\* for the rows with the given key.
ExpectedValue(e, key) ==
    IF e.fn = "count" THEN Cardinality(RowsWithKey(key)) ELSE SumTOver(RowsWithKey(key))

\* The table agg returned: its columns are the grouping items' names, then one
\* per positional expression under its default name, then one per keyword
\* expression under the caller's name; it has one row per distinct key of the
\* table, holding the key's components and each expression's value for the
\* rows with that key.
AggTableShape ==
    LET call == ret.call
        exprs == call.aggs \o [i \in 1..Len(call.named_aggs) |-> call.named_aggs[i].expr]
    IN /\ ret.columns = [i \in 1..Len(AllItems) |-> AllItems[i].col]
                           \o [i \in 1..Len(call.aggs) |-> OutputName(call.aggs[i])]
                           \o [i \in 1..Len(call.named_aggs) |-> call.named_aggs[i].name]
       /\ \A k \in 1..Len(ret.data) :
             /\ Len(ret.data[k].key) = Len(AllItems)
             /\ Len(ret.data[k].agg) = Len(exprs)
             /\ \A j \in 1..Len(exprs) : ret.data[k].agg[j] = ExpectedValue(exprs[j], ret.data[k].key)
       /\ \A k, l \in 1..Len(ret.data) : k # l => ret.data[k].key # ret.data[l].key
       /\ {ret.data[k].key : k \in 1..Len(ret.data)} = {KeyOf(df[i], AllItems) : i \in 1..Len(df)}

\* The keys of the entries the last __iter__ installed.
EntryKeys == [k \in 1..Len(_group_names.items) |-> _group_names.items[k].vals]
ResultKeys == [k \in 1..Len(ret.data) |-> ret.data[k].key]

ConvenienceMethods ==
    {"all", "count", "first", "last", "max", "mean", "median", "min", "n_unique",
     "quantile", "sum"}

\* The values of column t in the rows with the given key, in row order.
ValuesOfT(key) ==
    LET at == SelectSeq([i \in 1..Len(df) |-> i], LAMBDA i : i \in RowsWithKey(key))
    IN [i \in 1..Len(at) |-> df[at[i]].t]

\* What a convenience aggregation is worth for column t of the rows with the
\* given key.
ExpectedOfT(method, arg, key) ==
    LET S == RowsWithKey(key)
        T == {df[i].t : i \in S}
    IN CASE method = "sum" -> SumTOver(S)
         [] method = "mean" -> Fraction(SumTOver(S), Cardinality(S))
         [] method = "first" -> df[CHOOSE i \in S : \A j \in S : i <= j].t
         [] method = "last" -> df[CHOOSE i \in S : \A j \in S : i >= j].t
         [] method = "max" -> CHOOSE t \in T : \A u \in T : t >= u
         [] method = "min" -> CHOOSE t \in T : \A u \in T : t <= u
         [] method = "n_unique" -> Cardinality(T)
         [] method = "all" -> ValuesOfT(key)
         [] method = "median" -> Reduce("median", 0, ValuesOfT(key))
         [] method = "quantile" ->
                IF arg = 0 THEN CHOOSE t \in T : \A u \in T : t <= u
                ELSE CHOOSE t \in T : \A u \in T : t >= u

\* The table of a convenience aggregation has one row per distinct key of the
\* table, and comes from one agg call with one positional expression.
OneExpressionAgg ==
    /\ Len(ret.call.aggs) = 1 /\ ret.call.named_aggs = <<>>
    /\ \A k, l \in 1..Len(ret.data) : k # l => ret.data[k].key # ret.data[l].key
    /\ {ret.data[k].key : k \in 1..Len(ret.data)} = {KeyOf(df[i], AllItems) : i \in 1..Len(df)}
    /\ maintain_order =>
          \A k, l \in 1..Len(ret.data) :
              k < l => FirstAppearance(ret.data[k].key) < FirstAppearance(ret.data[l].key)

\* The result has the key columns and then one column per non-key column, of
\* that column's name, holding the method's value for the column.
OneColumnPerNonKey ==
    LET cols == NonKeyColumns(AllItems)
    IN /\ ret.columns = [i \in 1..Len(AllItems) |-> AllItems[i].col] \o cols
       /\ \A k \in 1..Len(ret.data) :
             /\ Len(ret.data[k].agg) = Len(cols)
             /\ \A j \in 1..Len(cols) :
                   ret.data[k].agg[j] = ExpectedOfT(ret.op, ret.call.aggs[1].arg, ret.data[k].key)

\* C15 as stated: every convenience aggregation returns the result of one agg
\* call with a single expression, and the result has one output column per
\* non-key column after the key columns.
C15_SugarPerNonKeyColumn ==
    (kind = "GroupBy" /\ ret.op \in ConvenienceMethods) =>
        OneExpressionAgg /\ OneColumnPerNonKey

\* C15 as amended: every convenience aggregation returns the result of one agg
\* call with a single expression; for all of them but count the result has
\* one output column per non-key column after the key columns; count gives a
\* single column named "count" with the number of rows of each group,
\* however many non-key columns there are.
C15_SugarIsOneAgg ==
    (kind = "GroupBy" /\ ret.op \in ConvenienceMethods) =>
        /\ OneExpressionAgg
        /\ ret.op # "count" => OneColumnPerNonKey
        /\ ret.op = "count" =>
              /\ ret.columns = [i \in 1..Len(AllItems) |-> AllItems[i].col] \o <<"count">>
              /\ \A k \in 1..Len(ret.data) :
                    ret.data[k].agg = <<Cardinality(RowsWithKey(ret.data[k].key))>>

\* count on a grouping by both columns, which leaves no non-key column: three
\* groups, each counted.
C15_Witness ==
    /\ kind = "GroupBy" /\ ret.op = "count"
    /\ NonKeyColumns(AllItems) = <<>>
    /\ Len(ret.data) = 3

\* The concatenation of what the function returns for the sub-tables from
\* the k-th on.
RECURSIVE Concatenated(_, _, _)
Concatenated(function, tables, k) ==
    IF k > Len(tables) THEN <<>>
    ELSE Udf(function, tables[k]) \o Concatenated(function, tables, k + 1)

InstalledFor(n) ==
    LET groups_df == GroupbyRollingAgg(WithRowCount(SubSeq(df, 1, n)), period, offset, closed,
                                       by, check_sorted, "col_temp")
    IN /\ groups_df.exc = "none"
       /\ _group_indices = [k \in 1..Len(groups_df.rows) |-> groups_df.rows[k].agg]
       /\ _group_names.items = GroupNames(groups_df.rows, by = None)

\* C17: when computing the group index raises, __iter__ raises the error and
\* assigns nothing: the cursor position, the key sequence and the row-index
\* sequence stay unset if they were never set, and stay those of the previous
\* successful __iter__ otherwise.  So the cursor that __next__ reads is always
\* that of a complete group index, never a partial one.
C17_FailFast ==
    /\ [][(ret'.op = "__iter__" /\ ret'.exc # "none") =>
            /\ UNCHANGED <<cursorVars, yielded, ends>>
            /\ ~IsSortedWithin(df', by.items)]_vars
    /\ [](~has_cursor => (_group_indices = <<>> /\ _group_names = PyIter(<<>>) /\ _current_index = 0))
    /\ [](has_cursor => \E n \in 0..Len(df) : InstalledFor(n))

\* __iter__ raised UnsortedIndexError on a table that the caller extended
\* after a successful __iter__ and one advance: the cursor still stands after
\* the first of the two entries of the earlier table.
C17_Witness ==
    /\ ret = Raised("__iter__", "UnsortedIndexError")
    /\ has_cursor /\ _current_index = 1 /\ Len(_group_indices) = 2
    /\ Len(yielded) = 1
    /\ Len(df) = 3

=============================================================================
